---- MODULE Spec2Model ----
(***************************************************************************)
(* A model of two libosmium components:                                    *)
(*   osmium::index::map::SparseTable  (include/osmium/index/map/           *)
(*                                     sparse_table.hpp)                   *)
(*   osmium::thread::function_wrapper (include/osmium/thread/              *)
(*                                     function_wrapper.hpp)               *)
(* The two components do not call each other; each has its own             *)
(* specification (Spec for the index, SpecHandle for the wrapper).         *)
(***************************************************************************)
EXTENDS Integers, Sequences, FiniteSets, TLC

(***************************************************************************)
(* Bounds of the model.                                                    *)
(***************************************************************************)
\* number of index operations in one run
MaxOps == 3
\* largest grow_size handed to the constructor
MaxGrow == 2

(***************************************************************************)
(* Types.  TId is an unsigned integer type (sparse_table.hpp:63); its      *)
(* arithmetic wraps modulo 2^width.  The model scales the width down to    *)
(* 4 bits.  TValue is a fixed-size value; sizeof(TValue) is taken as 8     *)
(* (an osmium::Location).                                                  *)
(***************************************************************************)
TIdModulus == 2 ^ 4
TIdMax == TIdModulus - 1
TId == 0 .. TIdMax
TValue == 0 .. 2
sizeof_TValue == 8

\* osmium::index::empty_value<TValue>() (osmium/index/index.hpp): the value
\* that marks a slot as holding no data.  The generic template returns
\* TValue{}, which is also what google::sparsetable yields for a bucket
\* that is not assigned.
empty_value == 0

\* the ids and grow sizes the model hands to the operations
Ids == {0, 1, 2, 7, 8, 14, TIdMax}
GrowSizes == 0 .. MaxGrow

VARIABLES
    m_grow_size,   \* SparseTable::m_grow_size
    m_elements,    \* SparseTable::m_elements, a google::sparsetable<TValue>
    st,            \* "ok", or "aborted" once the process has been terminated
    last,          \* the last operation called and what it returned
    written,       \* history: id -> value of the most recent set(id, value)
    only_values,   \* history: every mutation so far was a set of a value
                   \* other than empty_value
    nops,          \* number of operations called so far
    sink           \* what the file descriptor of the last dump took: the
                   \* bytes it accepted and the number of writes it was asked

ivars == <<m_grow_size, m_elements, st, last, written, only_values, nops, sink>>

\* bounds of the wrapper model
NumHandles == 2
MaxFunctors == 2
MaxHandleOps == 4

Handles == 1 .. NumHandles
Functors == 1 .. MaxFunctors

VARIABLES
    handles,   \* per function_wrapper object: is it constructed, and its impl
    runs,      \* per functor: how many times it has been executed
    deleted,   \* the functors whose impl_type object has been deleted
    made,      \* number of functors wrapped so far
    hst,       \* "ok", or "crashed" once the process has been terminated
    hlast,     \* the last operation and what it returned
    hnops      \* number of operations so far

hvars == <<handles, runs, deleted, made, hst, hlast, hnops>>

\* Bounds of the pool in which task handles travel from a producer through a
\* queue to worker threads
NumWorkers == 2
QueueCap == 2

\* the function_wrapper objects of the pool: the producer's handle, the local
\* handle `task` of each worker, and the elements of the queue
Producer == 0
Workers == 1 .. NumWorkers
QueueSlots == (NumWorkers + 1) .. (NumWorkers + QueueCap)
PoolObjects == {Producer} \cup Workers \cup QueueSlots

VARIABLES
    queue,      \* the elements of the queue, front first
    pc,         \* per worker: "idle", "got" (holds a dequeued task), "exited"
    sentinels,  \* number of shutdown handles the producer has made
    dequeued    \* per worker: the functors of the Work handles it dequeued

pvars == <<queue, pc, sentinels, dequeued>>

(***************************************************************************)
(* google::sparsetable<TValue>, as SparseTable uses it.  A table has a     *)
(* size (table_size), buckets that are either assigned (they hold a value) *)
(* or not, and a running count of the assigned buckets (num_buckets).      *)
(* `buckets` is the function from the assigned positions to their values.  *)
(***************************************************************************)

\* sparsetable(size_type sz): a table of sz buckets, none assigned
sparsetable(sz) == [table_size |-> sz, buckets |-> <<>>, num_buckets |-> 0]

\* sparsetable::size()
st_size(e) == e.table_size

\* sparsetable::num_nonempty()
st_num_nonempty(e) == e.num_buckets

\* sparsetable::test(i): is bucket i assigned
st_test(e, i) == i \in DOMAIN e.buckets

\* const read m_elements[i] / iteration: the value of an assigned bucket,
\* TValue{} for a bucket that is not assigned
st_read(e, i) == IF st_test(e, i) THEN e.buckets[i] ELSE empty_value

\* sparsetable::resize(n): growing keeps every bucket; shrinking drops the
\* buckets at positions >= n and recounts
st_resize(e, n) ==
    IF n < e.table_size
    THEN LET kept == {k \in DOMAIN e.buckets : k < n}
         IN  [table_size |-> n,
              buckets |-> [k \in kept |-> e.buckets[k]],
              num_buckets |-> Cardinality(kept)]
    ELSE [e EXCEPT !.table_size = n]

\* m_elements[i] = v, that is sparsetable::set(i, v): the bucket becomes
\* assigned whatever the value, and num_buckets grows by the change in the
\* number of assigned buckets
st_set(e, i, v) ==
    [table_size |-> e.table_size,
     buckets |-> [k \in (DOMAIN e.buckets) \cup {i} |->
                     IF k = i THEN v ELSE e.buckets[k]],
     num_buckets |-> e.num_buckets + (IF st_test(e, i) THEN 0 ELSE 1)]

\* the table keeps its buckets in groups of GROUP_SIZE (the library's
\* DEFAULT_SPARSEGROUP_SIZE); bucket i lives in group i / GROUP_SIZE, and a
\* table of n buckets has ceil(n / GROUP_SIZE) groups
GROUP_SIZE == 48
st_has_group(e, i) ==
    (i \div GROUP_SIZE) < ((e.table_size + GROUP_SIZE - 1) \div GROUP_SIZE)

\* a clear that resets the count and forgets to release the buckets
st_clear_KeepsBuckets(e) == [e EXCEPT !.num_buckets = 0]

\* sparsetable::clear(): every bucket becomes unassigned; the table keeps
\* its size
st_clear(e) == [table_size |-> e.table_size, buckets |-> <<>>, num_buckets |-> 0]

(***************************************************************************)
(* SparseTable                                                             *)
(***************************************************************************)

\* results of the operations
NotFound == [kind |-> "not_found", value |-> 0]
Value(v) == [kind |-> "value", value |-> v]
Void == [kind |-> "void", value |-> 0]

\* set, lines 90-92: the table size after the growth step.  id + m_grow_size
\* is computed in TId and wraps.
set_resize(e, grow, id) ==
    IF id >= st_size(e)
    THEN st_resize(e, (id + grow) % TIdModulus)
    ELSE e

\* get without the test of lines 100-102
get_NoEmptyCheck(e, id) ==
    IF id >= st_size(e)
    THEN NotFound
    ELSE Value(st_read(e, id))

\* get testing the slot against a value that is not the empty value
get_WrongSentinel(e, id) ==
    IF id >= st_size(e)
    THEN NotFound
    ELSE IF st_read(e, id) = empty_value + 1
         THEN NotFound
         ELSE Value(st_read(e, id))

\* get, lines 96-104
get(e, id) ==
    IF id >= st_size(e)
    THEN NotFound
    ELSE IF st_read(e, id) = empty_value
         THEN NotFound
         ELSE Value(st_read(e, id))

\* size, lines 106-108
size(e) == st_size(e)

\* used_memory counting a byte, not a bit, for every slot
used_memory_NoDivision(e) == st_size(e) + (st_num_nonempty(e) * sizeof_TValue)

\* used_memory, lines 110-114
used_memory(e) == (st_size(e) \div 8) + (st_num_nonempty(e) * sizeof_TValue)

\* SparseTable(grow_size), lines 82-85
IndexInit ==
    /\ m_grow_size \in GrowSizes
    /\ m_elements = sparsetable(m_grow_size)
    /\ st = "ok"
    /\ last = [op |-> "ctor", id |-> 0, value |-> 0, ret |-> Void]
    /\ written = <<>>
    /\ only_values = TRUE
    /\ nops = 0
    /\ sink = [bytes |-> <<>>, writes |-> 0]

Called(op, id, value, ret) ==
    /\ last' = [op |-> op, id |-> id, value |-> value, ret |-> ret]
    /\ nops' = nops + 1

Record(id, value) ==
    /\ written' = [k \in (DOMAIN written) \cup {id} |->
                      IF k = id THEN value ELSE written[k]]
    /\ only_values' = (only_values /\ value # empty_value)

\* set(id, value), lines 89-94.  When the resized table still does not
\* contain position id (grow_size = 0, or id + grow_size wrapped), the write
\* m_elements[id] = value is out of bounds: undefined behaviour.  The builds
\* differ: the library's assert terminates the process; without the assert
\* the write lands in the slack of the last bucket group when the table has
\* the group of position id (the bucket is then assigned although it lies
\* beyond table_size), or outside the table.
Set(id, value) ==
    /\ st = "ok"
    /\ nops < MaxOps
    /\ LET e == set_resize(m_elements, m_grow_size, id)
       IN  \/ /\ id < st_size(e)
              /\ m_elements' = st_set(e, id, value)
              /\ st' = "ok"
           \/ /\ id >= st_size(e)
              /\ m_elements' = e
              /\ st' = "aborted"
           \/ /\ id >= st_size(e)
              /\ st_has_group(e, id)
              /\ m_elements' = st_set(e, id, value)
              /\ st' = "ok"
           \/ /\ id >= st_size(e)
              /\ m_elements' = e
              /\ st' = "ok"
    /\ Called("set", id, value, Void)
    /\ Record(id, value)
    /\ UNCHANGED m_grow_size
    /\ UNCHANGED <<hvars, pvars, sink>>

\* get(id), lines 96-104
Get(id) ==
    /\ st = "ok"
    /\ nops < MaxOps
    /\ Called("get", id, 0, get(m_elements, id))
    /\ UNCHANGED <<m_grow_size, m_elements, st, written, only_values, hvars, pvars, sink>>

\* size(), lines 106-108
Size ==
    /\ st = "ok"
    /\ nops < MaxOps
    /\ Called("size", 0, 0, Value(size(m_elements)))
    /\ UNCHANGED <<m_grow_size, m_elements, st, written, only_values, hvars, pvars, sink>>

\* used_memory(), lines 110-114
UsedMemory ==
    /\ st = "ok"
    /\ nops < MaxOps
    /\ Called("used_memory", 0, 0, Value(used_memory(m_elements)))
    /\ UNCHANGED <<m_grow_size, m_elements, st, written, only_values, hvars, pvars, sink>>

\* clear(), lines 116-118
Clear ==
    /\ st = "ok"
    /\ nops < MaxOps
    /\ m_elements' = st_clear(m_elements)
    /\ Called("clear", 0, 0, Void)
    /\ written' = <<>>
    /\ only_values' = FALSE
    /\ UNCHANGED <<m_grow_size, st, hvars, pvars, sink>>

\* int, the type of the counter n in dump_as_list (line 122): a signed type
\* narrower than TId, scaled down to 3 bits
IntModulus == 2 ^ 3
INT_MAX == (IntModulus \div 2) - 1

\* the value of n after p increments from 0, when ++n wraps at INT_MAX
int_after(p) == ((p + (IntModulus \div 2)) % IntModulus) - (IntModulus \div 2)

\* std::pair<TId, TValue>(n, value): the int n converted to the unsigned TId
pair(n, value) == <<n % TIdModulus, value>>

\* dump_as_list, lines 121-128: the vector v of (n, value) for the values
\* of the table, in iteration order, that differ from empty_value
dump_list(e) ==
    LET all == [i \in 1 .. st_size(e) |->
                   pair(int_after(i - 1), st_read(e, i - 1))]
        Present(r) == r[2] # empty_value
    IN  SelectSeq(all, Present)

Records(v) == [kind |-> "records", value |-> v]
IOError == [kind |-> "io_error", value |-> <<>>]

\* the bytes of one std::pair<TId, TValue> as reinterpret_cast<const char*>
\* (v.data()) exposes them (line 129): the key in native byte order (least
\* significant byte first; a byte is scaled down to 2 bits, the key to 2
\* bytes), then the value
ByteModulus == 2 ^ 2
record_bytes(r) == <<r[1] % ByteModulus, r[1] \div ByteModulus, r[2]>>
sizeof_pair == Len(record_bytes(<<0, 0>>))

\* the sizeof(std::pair<TId, TValue>) * v.size() bytes at v.data()
RECURSIVE payload(_)
payload(v) == IF v = <<>> THEN <<>> ELSE record_bytes(Head(v)) \o payload(Tail(v))

\* the reader of a dump: the fixed-width records of a byte sequence
RECURSIVE parse(_)
parse(bytes) ==
    IF Len(bytes) < sizeof_pair
    THEN <<>>
    ELSE <<(<<bytes[1] + ByteModulus * bytes[2], bytes[3]>>)>>
             \o parse(SubSeq(bytes, sizeof_pair + 1, Len(bytes)))

\* the file descriptor: its k-th write accepts at most accepts[k] bytes (the
\* pattern repeats), and write number fail_at fails (0: none fails)
Accepts == {<<1, 2>>, <<2, 1>>, <<3, 3>>, <<64, 64>>}
FailAt == 0 .. 3
Min(a, b) == IF a < b THEN a ELSE b

\* a reliable_write that takes the first write for the whole of it
reliable_write_NoRetry(buf, accepts, fail_at) ==
    IF fail_at = 1
    THEN [bytes |-> <<>>, writes |-> 1, ok |-> FALSE]
    ELSE [bytes |-> SubSeq(buf, 1, Min(Len(buf), accepts[1])), writes |-> 1,
          ok |-> TRUE]

\* osmium::io::detail::reliable_write(fd, buffer, size) (osmium/io/detail/
\* read_write.hpp): writes buffer + offset, size - offset until offset
\* reaches size; a failing write throws
RECURSIVE write_loop(_, _, _, _, _, _)
write_loop(buf, offset, k, acc, accepts, fail_at) ==
    IF k = fail_at
    THEN [bytes |-> acc, writes |-> k, ok |-> FALSE]
    ELSE LET length == Min(Len(buf) - offset,
                           accepts[((k - 1) % Len(accepts)) + 1])
             taken == acc \o SubSeq(buf, offset + 1, offset + length)
         IN  IF offset + length < Len(buf)
             THEN write_loop(buf, offset + length, k + 1, taken,
                             accepts, fail_at)
             ELSE [bytes |-> taken, writes |-> k, ok |-> TRUE]

reliable_write(buf, accepts, fail_at) ==
    write_loop(buf, 0, 1, <<>>, accepts, fail_at)

\* a dump_as_list that releases the index once it is written
Dump_Clears ==
    /\ st = "ok"
    /\ nops < MaxOps
    /\ st_size(m_elements) <= INT_MAX
    /\ m_elements' = st_clear(m_elements)
    /\ sink' = [bytes |-> payload(dump_list(m_elements)), writes |-> 1]
    /\ Called("dump", 0, 0, Records(dump_list(m_elements)))
    /\ UNCHANGED <<m_grow_size, st, written, only_values, hvars, pvars>>

\* dump_as_list(fd), lines 120-130.  ++n is executed once per slot; when the
\* table has more than INT_MAX slots the increment overflows a signed int:
\* undefined behaviour, which the builds resolve by wrapping or by trapping.
\* v is then handed to reliable_write, which throws when a write fails.
Dump ==
    /\ st = "ok"
    /\ nops < MaxOps
    /\ \E accepts \in Accepts, fail_at \in FailAt :
          LET v == dump_list(m_elements)
              w == reliable_write(payload(v), accepts, fail_at)
              ret == IF w.ok THEN Records(v) ELSE IOError
          IN  \/ /\ st_size(m_elements) <= INT_MAX
                 /\ st' = "ok"
                 /\ sink' = [bytes |-> w.bytes, writes |-> w.writes]
                 /\ Called("dump", 0, 0, ret)
              \/ /\ st_size(m_elements) > INT_MAX
                 /\ st' = "ok"
                 /\ sink' = [bytes |-> w.bytes, writes |-> w.writes]
                 /\ Called("dump", 0, 0, ret)
              \/ /\ st_size(m_elements) > INT_MAX
                 /\ st' = "aborted"
                 /\ sink' = [bytes |-> <<>>, writes |-> 0]
                 /\ Called("dump", 0, 0, Void)
    /\ UNCHANGED <<m_grow_size, m_elements, written, only_values, hvars, pvars>>

(***************************************************************************)
(* function_wrapper                                                        *)
(***************************************************************************)
\* values of std::unique_ptr<impl_base> impl (line 60): null, an impl_base
\* object, or an impl_type<F> object holding functor f
Null == [kind |-> "null", f |-> 0]
ImplBase == [kind |-> "impl_base", f |-> 0]
ImplType(f) == [kind |-> "impl_type", f |-> f]

NotConstructed == [live |-> FALSE, impl |-> Null]
Object(p) == [live |-> TRUE, impl |-> p]

\* m_functor(), line 72: runs the user's functor; what the functor itself
\* returns differs from functor to functor
m_functor(f, rs) == [runs |-> [rs EXCEPT ![f] = @ + 1], result |-> (f % 2 = 0)]

\* impl_base::call answering as a task does
impl_base_call_ReturnsFalse(rs) == [runs |-> rs, ret |-> FALSE]

\* impl_base::call, lines 54-56
impl_base_call(rs) == [runs |-> rs, ret |-> TRUE]

\* impl_type::call handing on what the functor returned
impl_type_call_ReturnsResult(f, rs) ==
    [runs |-> m_functor(f, rs).runs, ret |-> m_functor(f, rs).result]

\* impl_type::call, lines 71-74
impl_type_call(f, rs) == [runs |-> m_functor(f, rs).runs, ret |-> FALSE]

\* impl->call(), line 96: the virtual call on a non-null impl
call(p, rs) ==
    IF p.kind = "impl_type" THEN impl_type_call(p.f, rs) ELSE impl_base_call(rs)

\* operator bool, lines 115-117
operator_bool(w) == w.impl # Null

\* the functors deleted when pointer p is deleted
Deleting(p) == IF p.kind = "impl_type" THEN {p.f} ELSE {}

\* a move constructor that copies the pointer and leaves other as it was
move_construct_NoRelease(hs, d, s) == [hs EXCEPT ![d] = Object(hs[s].impl)]

\* function_wrapper(function_wrapper&& other), lines 101-103:
\* impl(std::move(other.impl)) takes other's pointer and leaves other null
move_construct(hs, d, s) ==
    LET p == hs[s].impl
        h1 == [hs EXCEPT ![s].impl = Null]
    IN  [h1 EXCEPT ![d] = Object(p)]

\* a move assignment that takes the pointer and leaves it in other as well
move_assign_KeepsSource(hs, d, s) ==
    [hs |-> [hs EXCEPT ![d].impl = hs[s].impl], deleted |-> Deleting(hs[d].impl)]

\* a move assignment that overwrites its pointer without deleting the impl
\* it held
move_assign_LeaksOld(hs, d, s) ==
    LET p == hs[s].impl
        h1 == [hs EXCEPT ![s].impl = Null]
    IN  [hs |-> [h1 EXCEPT ![d].impl = p], deleted |-> {}]

\* operator=(function_wrapper&& other), lines 105-108:
\* impl = std::move(other.impl) is impl.reset(other.impl.release()):
\* other is nulled first, then this takes the pointer and deletes the one it
\* held
move_assign(hs, d, s) ==
    LET p == hs[s].impl
        h1 == [hs EXCEPT ![s].impl = Null]
        old == h1[d].impl
    IN  [hs |-> [h1 EXCEPT ![d].impl = p], deleted |-> Deleting(old)]

BoolStr(b) == IF b THEN "true" ELSE "false"

HandleInit ==
    /\ handles = [h \in Handles |-> NotConstructed]
    /\ runs = [f \in Functors |-> 0]
    /\ deleted = {}
    /\ made = 0
    /\ hst = "ok"
    /\ hlast = [op |-> "none", h |-> 0, src |-> 0, ret |-> "void"]
    /\ hnops = 0

HCalled(op, h, src, ret) ==
    /\ hlast' = [op |-> op, h |-> h, src |-> src, ret |-> ret]
    /\ hnops' = hnops + 1

HReady == hst = "ok" /\ hnops < MaxHandleOps

\* function_wrapper(TFunction&& f), lines 82-86
ConstructWork(h) ==
    /\ HReady
    /\ ~handles[h].live
    /\ made < MaxFunctors
    /\ made' = made + 1
    /\ handles' = [handles EXCEPT ![h] = Object(ImplType(made + 1))]
    /\ HCalled("construct_work", h, 0, "void")
    /\ UNCHANGED <<runs, deleted, hst, ivars, pvars>>

\* a shutdown constructor that leaves impl null
ConstructShutdown_NoImpl(h) ==
    /\ HReady
    /\ ~handles[h].live
    /\ handles' = [handles EXCEPT ![h] = Object(Null)]
    /\ HCalled("construct_shutdown", h, 0, "void")
    /\ UNCHANGED <<runs, deleted, made, hst, ivars, pvars>>

\* explicit function_wrapper(int), lines 91-93
ConstructShutdown(h) ==
    /\ HReady
    /\ ~handles[h].live
    /\ handles' = [handles EXCEPT ![h] = Object(ImplBase)]
    /\ HCalled("construct_shutdown", h, 0, "void")
    /\ UNCHANGED <<runs, deleted, made, hst, ivars, pvars>>

\* function_wrapper() = default, line 99
ConstructDefault(h) ==
    /\ HReady
    /\ ~handles[h].live
    /\ handles' = [handles EXCEPT ![h] = Object(Null)]
    /\ HCalled("construct_default", h, 0, "void")
    /\ UNCHANGED <<runs, deleted, made, hst, ivars, pvars>>

\* function_wrapper(function_wrapper&& other), lines 101-103
MoveConstruct(h, other) ==
    /\ HReady
    /\ ~handles[h].live
    /\ handles[other].live
    /\ handles' = move_construct(handles, h, other)
    /\ HCalled("move_construct", h, other, "void")
    /\ UNCHANGED <<runs, deleted, made, hst, ivars, pvars>>

\* operator=(function_wrapper&& other), lines 105-108
MoveAssign(h, other) ==
    /\ HReady
    /\ handles[h].live
    /\ handles[other].live
    /\ handles' = move_assign(handles, h, other).hs
    /\ deleted' = deleted \cup move_assign(handles, h, other).deleted
    /\ HCalled("move_assign", h, other, "void")
    /\ UNCHANGED <<runs, made, hst, ivars, pvars>>

\* operator() that gives up its impl once it has been called
Invoke_Resets(h) ==
    /\ HReady
    /\ handles[h].live
    /\ handles[h].impl # Null
    /\ runs' = call(handles[h].impl, runs).runs
    /\ HCalled("invoke", h, 0, BoolStr(call(handles[h].impl, runs).ret))
    /\ handles' = [handles EXCEPT ![h].impl = Null]
    /\ UNCHANGED <<deleted, made, hst, ivars, pvars>>

\* operator()(), lines 95-97.  With a null impl, impl->call() dereferences a
\* null pointer: undefined behaviour; the process is terminated, or the call
\* returns some boolean without having run anything.
Invoke(h) ==
    /\ HReady
    /\ handles[h].live
    /\ \/ /\ handles[h].impl # Null
          /\ runs' = call(handles[h].impl, runs).runs
          /\ HCalled("invoke", h, 0, BoolStr(call(handles[h].impl, runs).ret))
          /\ hst' = "ok"
       \/ /\ handles[h].impl = Null
          /\ runs' = runs
          /\ HCalled("invoke", h, 0, "void")
          /\ hst' = "crashed"
       \/ /\ handles[h].impl = Null
          /\ runs' = runs
          /\ \E b \in BOOLEAN : HCalled("invoke", h, 0, BoolStr(b))
          /\ hst' = "ok"
    /\ UNCHANGED <<handles, deleted, made, ivars, pvars>>

\* explicit operator bool() const, lines 115-117
Bool(h) ==
    /\ HReady
    /\ handles[h].live
    /\ HCalled("bool", h, 0, BoolStr(operator_bool(handles[h])))
    /\ UNCHANGED <<handles, runs, deleted, made, hst, ivars, pvars>>

\* ~function_wrapper() = default, line 113: the unique_ptr deletes its impl
Destroy(h) ==
    /\ HReady
    /\ handles[h].live
    /\ handles' = [handles EXCEPT ![h] = NotConstructed]
    /\ deleted' = deleted \cup Deleting(handles[h].impl)
    /\ HCalled("destroy", h, 0, "void")
    /\ UNCHANGED <<runs, made, hst, ivars, pvars>>

PoolIdle ==
    /\ queue = <<>>
    /\ pc = [w \in Workers |-> "idle"]
    /\ sentinels = 0
    /\ dequeued = [w \in Workers |-> {}]

\* each worker has entered its loop with a default-constructed task (line 99)
PoolInit ==
    /\ handles = [o \in PoolObjects |->
                     IF o \in Workers THEN Object(Null) ELSE NotConstructed]
    /\ runs = [f \in Functors |-> 0]
    /\ deleted = {}
    /\ made = 0
    /\ hst = "ok"
    /\ hlast = [op |-> "none", h |-> 0, src |-> 0, ret |-> "void"]
    /\ hnops = 0
    /\ PoolIdle

\* the producer has nothing in hand: its handle is not constructed or has
\* been moved from
ProducerFree == handles[Producer].impl = Null

\* the queue element the next push constructs
FreeSlot == CHOOSE s \in QueueSlots :
                /\ ~handles[s].live
                /\ \A t \in QueueSlots : ~handles[t].live => s <= t

\* the producer wraps a new functor: function_wrapper(TFunction&& f), lines
\* 82-86.  Work is submitted before the shutdown of the workers begins.
SubmitWork ==
    /\ ProducerFree
    /\ sentinels = 0
    /\ made < MaxFunctors
    /\ made' = made + 1
    /\ handles' = [handles EXCEPT ![Producer] = Object(ImplType(made + 1))]
    /\ UNCHANGED <<runs, deleted, hst, hlast, hnops, queue, pc, sentinels,
                   dequeued, ivars>>

\* the producer makes a shutdown handle, one per worker: explicit
\* function_wrapper(int), lines 91-93
SubmitShutdown ==
    /\ ProducerFree
    /\ sentinels < NumWorkers
    /\ sentinels' = sentinels + 1
    /\ handles' = [handles EXCEPT ![Producer] = Object(ImplBase)]
    /\ UNCHANGED <<runs, deleted, made, hst, hlast, hnops, queue, pc,
                   dequeued, ivars>>

\* queue.push(std::move(handle)): the new element is move-constructed from
\* the producer's handle (lines 101-103), under the lock of the queue
Push ==
    /\ ~ProducerFree
    /\ Len(queue) < QueueCap
    /\ handles' = move_construct(handles, FreeSlot, Producer)
    /\ queue' = Append(queue, FreeSlot)
    /\ UNCHANGED <<runs, deleted, made, hst, hlast, hnops, pc, sentinels,
                   dequeued, ivars>>

\* a worker dequeues: task = std::move(queue.front()) (lines 105-108), then
\* queue.pop() destroys the moved-from element (line 113), under the lock of
\* the queue
Dequeue(w) ==
    /\ pc[w] = "idle"
    /\ queue # <<>>
    /\ LET s == Head(queue)
           r == move_assign(handles, w, s)
       IN  /\ handles' = [r.hs EXCEPT ![s] = NotConstructed]
           /\ deleted' = deleted \cup r.deleted \cup Deleting(r.hs[s].impl)
           /\ dequeued' = [dequeued EXCEPT ![w] = @ \cup Deleting(r.hs[w].impl)]
    /\ queue' = Tail(queue)
    /\ pc' = [pc EXCEPT ![w] = "got"]
    /\ UNCHANGED <<runs, made, hst, hlast, hnops, sentinels, ivars>>

\* a worker invokes its task, operator()() lines 95-97, and leaves its loop
\* when the invocation returned true
Run(w) ==
    /\ pc[w] = "got"
    /\ operator_bool(handles[w])
    /\ runs' = call(handles[w].impl, runs).runs
    /\ pc' = [pc EXCEPT ![w] =
                 IF call(handles[w].impl, runs).ret THEN "exited" ELSE "idle"]
    /\ UNCHANGED <<handles, deleted, made, hst, hlast, hnops, queue,
                   sentinels, dequeued, ivars>>

(***************************************************************************)
(* Specifications                                                          *)
(***************************************************************************)
vars == <<ivars, hvars, pvars>>

\* the index alone
Init == IndexInit /\ HandleInit /\ PoolIdle
Next ==
    \/ \E id \in Ids, value \in TValue : Set(id, value)
    \/ \E id \in Ids : Get(id)
    \/ Size
    \/ UsedMemory
    \/ Clear
    \/ Dump
Spec == Init /\ [][Next]_vars

\* the function wrapper alone
InitHandle == HandleInit /\ IndexInit /\ m_grow_size = 0 /\ PoolIdle
NextHandle ==
    \/ \E h \in Handles : ConstructWork(h)
    \/ \E h \in Handles : ConstructShutdown(h)
    \/ \E h \in Handles : ConstructDefault(h)
    \/ \E h \in Handles, other \in Handles : MoveConstruct(h, other)
    \/ \E h \in Handles, other \in Handles : MoveAssign(h, other)
    \/ \E h \in Handles : Invoke(h)
    \/ \E h \in Handles : Bool(h)
    \/ \E h \in Handles : Destroy(h)
SpecHandle == InitHandle /\ [][NextHandle]_vars

\* task handles travelling from one producer through the queue to the workers
InitPool == PoolInit /\ IndexInit /\ m_grow_size = 0
NextPool ==
    \/ SubmitWork
    \/ SubmitShutdown
    \/ Push
    \/ \E w \in Workers : Dequeue(w)
    \/ \E w \in Workers : Run(w)
SpecPool == InitPool /\ [][NextPool]_vars

(***************************************************************************)
(* Properties of the index (checked under Spec)                            *)
(***************************************************************************)
IndexStep(op) == last'.op = op /\ nops' = nops + 1

\* the slots of the index: the positions below its capacity
Slots(e) == {i \in TId : i < size(e)}

\* C1: after any sequence of set(k, v) calls with values other than the
\* empty value, get(k) returns for every key k that was written the value
\* of the most recent set on k.
C1_GetReturnsLastSet ==
    (st = "ok" /\ only_values) =>
        \A k \in DOMAIN written : get(m_elements, k) = Value(written[k])

\* C3: get(key) is NotFound iff key >= capacity or the slot at key equals
\* the empty value (also when that value was written by set); otherwise it
\* returns the stored value; there is no other outcome.
C3_GetNotFoundIff ==
    last.op = "get" =>
        /\ last.ret.kind \in {"not_found", "value"}
        /\ last.ret = NotFound <=>
              (last.id >= size(m_elements)
                  \/ st_read(m_elements, last.id) = empty_value)
        /\ last.ret # NotFound => last.ret = Value(st_read(m_elements, last.id))

\* a get of a key inside the capacity whose slot was written with the empty
\* value has answered NotFound
C3_Witness ==
    /\ last.op = "get"
    /\ last.id < size(m_elements)
    /\ st_test(m_elements, last.id)
    /\ last.id \in DOMAIN written
    /\ written[last.id] = empty_value
    /\ last.ret = NotFound

\* C6: after set(k, v) returns, size() > k.
C6_SizeAboveKey ==
    (last.op = "set" /\ st = "ok") => size(m_elements) > last.id

\* C7: set(key, value) with key >= capacity grows the capacity to exactly
\* key + grow_size, which enlarges the storage by at least grow_size; with
\* key < capacity it leaves the capacity unchanged.
C7_GrowsToKeyPlusGrowSize ==
    [][(IndexStep("set") /\ st' = "ok") =>
          IF last'.id >= size(m_elements)
          THEN /\ size(m_elements') = last'.id + m_grow_size
               /\ size(m_elements') >= size(m_elements) + m_grow_size
          ELSE size(m_elements') = size(m_elements)]_vars

\* C8: set(k, v) changes only slot k: for every key j # k, get(j) has the
\* same outcome before and after the call.
C8_SetChangesOnlyItsSlot ==
    [][(IndexStep("set") /\ st' = "ok") =>
          \A j \in TId \ {last'.id} :
              get(m_elements', j) = get(m_elements, j)]_vars

\* C9, as stated: in every reachable state used_memory() is
\* capacity/8 + occupied_count * sizeof(V), occupied_count being the number
\* of slots that hold a value other than the empty value.
C9_CountsNonEmptyValues ==
    used_memory(m_elements) =
        (size(m_elements) \div 8)
        + Cardinality({i \in Slots(m_elements) :
                          st_read(m_elements, i) # empty_value}) * sizeof_TValue

\* C9, amended: in every reachable state used_memory() is
\* capacity/8 + n * sizeof(V), n being the number of buckets the table holds
\* as assigned: a bucket written by set is assigned whatever the value, the
\* empty value included.
C9_CountsAssignedBuckets ==
    used_memory(m_elements) =
        (size(m_elements) \div 8)
        + Cardinality({i \in TId : st_test(m_elements, i)}) * sizeof_TValue

\* an index of at least 8 slots with a slot that set has written with the
\* empty value, and another written with a value
C9_Witness ==
    /\ st = "ok"
    /\ size(m_elements) >= 8
    /\ \E i \in Slots(m_elements) :
          st_test(m_elements, i) /\ st_read(m_elements, i) = empty_value
    /\ \E i \in Slots(m_elements) : st_read(m_elements, i) # empty_value

\* C10: no operation other than clear lowers the capacity.
C10_CapacityNeverShrinks ==
    [][(nops' = nops + 1 /\ last'.op # "clear") =>
          size(m_elements') >= size(m_elements)]_vars

\* C11, as stated: after clear(), size() = 0 and get on any key is
\* NotFound (so that a later set grows the index again from capacity 0).
C11_ClearResetsCapacity ==
    last.op = "clear" =>
        /\ size(m_elements) = 0
        /\ \A k \in TId : get(m_elements, k) = NotFound

\* C11, amended: clear() leaves size() as it was; after it get on any key is
\* NotFound and no bucket is assigned; a set that follows with a key below
\* the capacity writes its slot without growing the index.
C11_ClearKeepsCapacity ==
    [][/\ IndexStep("clear") =>
             /\ size(m_elements') = size(m_elements)
             /\ \A k \in TId : get(m_elements', k) = NotFound
             /\ \A k \in TId : ~st_test(m_elements', k)
       /\ (last.op = "clear" /\ IndexStep("set")
              /\ last'.id < size(m_elements)) =>
             /\ size(m_elements') = size(m_elements)
             /\ st_read(m_elements', last'.id) = last'.value]_vars

\* an index that grew to at least 8 slots by set has been cleared and still
\* has its slots
C11_Witness ==
    /\ last.op = "clear"
    /\ nops >= 2
    /\ size(m_elements) >= 8

\* C12: get(k) is NotFound for every key k that was never written, inside
\* the capacity as well as beyond it.
C12_NeverWrittenNotFound ==
    st = "ok" =>
        \A k \in TId \ DOMAIN written : get(m_elements, k) = NotFound

\* an index that has grown holds a written key with its value, and a get of
\* a key inside the capacity that was never written has answered NotFound
C12_Witness ==
    /\ last.op = "get"
    /\ last.id < size(m_elements)
    /\ last.id \notin DOMAIN written
    /\ last.ret = NotFound
    /\ size(m_elements) > m_grow_size
    /\ \E k \in DOMAIN written : get(m_elements, k) = Value(written[k])

\* the records of the occupied slots of e from position p on, in ascending
\* order of position
RECURSIVE occupied(_, _)
occupied(e, p) ==
    IF p >= st_size(e)
    THEN <<>>
    ELSE IF st_read(e, p) # empty_value
         THEN <<(<<p, st_read(e, p)>>)>> \o occupied(e, p + 1)
         ELSE occupied(e, p + 1)

Elements(q) == {q[i] : i \in 1 .. Len(q)}
Dumped == last.op = "dump" /\ last.ret.kind = "records"

\* C14: the list a dump writes has exactly one record for every occupied
\* slot, in ascending order, with the position of the slot as key and the
\* value of the slot as value, and no record for any other slot.
C14_DumpListsOccupiedSlots ==
    Dumped => last.ret.value = occupied(m_elements, 0)

\* C15: parsing the bytes a successful dump wrote gives back exactly the
\* (key, value) pairs of the occupied slots, one record each, whatever the
\* positions of the slots in the range of TId.
C15_DumpRoundTrip ==
    Dumped =>
        /\ Elements(parse(sink.bytes)) = Elements(occupied(m_elements, 0))
        /\ Len(parse(sink.bytes)) = Len(occupied(m_elements, 0))

\* C16: a dump leaves the index as it was: capacity, every bucket and
\* used_memory() are the same after it, when it succeeds and when a write
\* fails.
C16_DumpKeepsIndex ==
    [][ IndexStep("dump") =>
            /\ m_elements' = m_elements
            /\ m_grow_size' = m_grow_size
            /\ size(m_elements') = size(m_elements)
            /\ used_memory(m_elements') = used_memory(m_elements)
            /\ \A k \in TId : get(m_elements', k) = get(m_elements, k) ]_vars

\* a dump of an index with an occupied slot failed after the descriptor had
\* taken some of the bytes
C16_Witness ==
    /\ last.op = "dump"
    /\ last.ret = IOError
    /\ sink.bytes # <<>>
    /\ st_num_nonempty(m_elements) > 0
    /\ used_memory(m_elements) > 0

\* C17: a dump that returns has handed the descriptor every byte of its
\* records, in order and once each, however few bytes each write accepted; a
\* dump that a write failed has reported the error and the descriptor has
\* taken the bytes before the failing write and nothing else.
C17_DumpWritesAllOrFails ==
    (last.op = "dump" /\ st = "ok") =>
        LET bytes == payload(dump_list(m_elements))
        IN  /\ last.ret.kind \in {"records", "io_error"}
            /\ last.ret.kind = "records" =>
                   /\ sink.bytes = bytes
                   /\ Len(sink.bytes) = Len(last.ret.value) * sizeof_pair
            /\ last.ret.kind = "io_error" =>
                   /\ Len(sink.bytes) <= Len(bytes)
                   /\ sink.bytes = SubSeq(bytes, 1, Len(sink.bytes))
                   /\ sink.writes >= 1

\* two records went out in three or more writes
C17_Witness ==
    /\ Dumped
    /\ Len(last.ret.value) = 2
    /\ sink.writes >= 3
    /\ Len(sink.bytes) = 2 * sizeof_pair

(***************************************************************************)
(* Properties of the function wrapper (checked under SpecHandle)           *)
(***************************************************************************)
HandleStep(op) == hlast'.op = op /\ hnops' = hnops + 1

\* C2: invoking a handle that holds work executes its functor exactly once
\* and returns false; invoking a shutdown handle executes nothing and
\* returns true.
C2_InvokeRunsOnce ==
    [][HandleStep("invoke") =>
          LET p == handles[hlast'.h].impl
          IN  /\ p.kind = "impl_type" =>
                    /\ runs' = [runs EXCEPT ![p.f] = runs[p.f] + 1]
                    /\ hlast'.ret = "false"
              /\ p.kind = "impl_base" =>
                    /\ runs' = runs
                    /\ hlast'.ret = "true"]_vars

\* functor 2, whose own result is true, has been run once by an invocation
\* that returned false
C2_Witness ==
    /\ hlast.op = "invoke"
    /\ handles[hlast.h].impl = ImplType(2)
    /\ runs[2] = 1
    /\ hlast.ret = "false"

MoveOps == {"move_construct", "move_assign"}

\* C4, as stated: after a move (construction or assignment) the source is
\* empty and the destination holds the source's former state.
C4_MoveEmptiesSource ==
    [][(hnops' = hnops + 1 /\ hlast'.op \in MoveOps) =>
          /\ ~operator_bool(handles'[hlast'.src])
          /\ handles'[hlast'.h].impl = handles[hlast'.src].impl]_vars

\* C4, amended: after a move into another handle the source is empty and
\* the destination holds the source's former state, and invoking the
\* destination next has the original's effect once; a move assignment of a
\* handle to itself leaves it as it was.
C4_MoveToOtherEmptiesSource ==
    [][/\ (hnops' = hnops + 1 /\ hlast'.op \in MoveOps
              /\ hlast'.h # hlast'.src) =>
             /\ ~operator_bool(handles'[hlast'.src])
             /\ handles'[hlast'.h].impl = handles[hlast'.src].impl
       /\ (HandleStep("move_assign") /\ hlast'.h = hlast'.src) =>
             handles' = handles
       /\ (hlast.op \in MoveOps /\ hlast.h # hlast.src
              /\ HandleStep("invoke") /\ hlast'.h = hlast.h) =>
             LET p == handles[hlast.h].impl
             IN  /\ p.kind = "impl_type" =>
                       /\ runs'[p.f] = runs[p.f] + 1
                       /\ \A g \in Functors \ {p.f} : runs'[g] = runs[g]
                       /\ hlast'.ret = "false"
                 /\ p.kind = "impl_base" =>
                       /\ runs' = runs
                       /\ hlast'.ret = "true"]_vars

\* a handle holding work has just been moved into another handle: the
\* source is still alive and empty, the destination holds the functor
C4_Witness ==
    /\ hlast.op \in MoveOps
    /\ hlast.h # hlast.src
    /\ handles[hlast.src].live
    /\ ~operator_bool(handles[hlast.src])
    /\ handles[hlast.h].impl = ImplType(1)
    /\ runs[1] = 0

Holds(w) == IF w.impl.kind = "impl_type" THEN {w.impl.f} ELSE {}

C20_MoveAssignDropsOldWork ==
    [][/\ (HandleStep("move_assign")
              /\ handles[hlast'.h].impl.kind = "impl_type") =>
             LET f == handles[hlast'.h].impl.f
             IN  /\ handles'[hlast'.h].impl = handles[hlast'.src].impl
                 /\ f \in deleted'
                 /\ \A g \in Handles : f \notin Holds(handles'[g])
                 /\ runs'[f] = runs[f]
       /\ (HandleStep("move_assign") /\ ~operator_bool(handles[hlast'.src])
              /\ operator_bool(handles[hlast'.h])) =>
             ~operator_bool(handles'[hlast'.h])]_vars

\* C20, amended: the same for a move assignment from another handle; the
\* dropped functor is deleted and never runs afterwards.  A move assignment
\* of a handle to itself drops nothing.
C20_MoveAssignFromOtherDropsOldWork ==
    [][/\ (HandleStep("move_assign") /\ hlast'.h # hlast'.src
              /\ handles[hlast'.h].impl.kind = "impl_type") =>
             LET f == handles[hlast'.h].impl.f
             IN  /\ handles'[hlast'.h].impl = handles[hlast'.src].impl
                 /\ f \in deleted'
                 /\ \A g \in Handles : f \notin Holds(handles'[g])
                 /\ runs'[f] = runs[f]
       /\ (HandleStep("move_assign") /\ ~operator_bool(handles[hlast'.src])
              /\ operator_bool(handles[hlast'.h])) =>
             ~operator_bool(handles'[hlast'.h])
       /\ (HandleStep("move_assign") /\ hlast'.h = hlast'.src) =>
             (handles' = handles /\ deleted' = deleted)
       /\ \A f \in deleted : runs'[f] = runs[f] /\ f \in deleted'
       /\ \A f \in deleted, g \in Handles : f \notin Holds(handles'[g])]_vars

\* a handle holding functor 1 has been move-assigned from another handle
\* holding functor 2: functor 1 is deleted and has never run
C20_Witness ==
    /\ hlast.op = "move_assign"
    /\ hlast.h # hlast.src
    /\ handles[hlast.h].impl = ImplType(2)
    /\ 1 \in deleted
    /\ runs[1] = 0

(***************************************************************************)
(* Properties of the pool (checked under SpecPool)                         *)
(***************************************************************************)
\* worker w invokes its task in this step
RunStep(w) == pc[w] = "got" /\ pc'[w] # "got"

\* C18: a worker leaves its loop exactly when the handle it invokes is the
\* shutdown handle and never when it is Work, whatever the functor itself
\* returns: invoking Work runs the functor and the worker goes on.  An
\* exited worker has executed every Work handle it dequeued.
C18_WorkerExitsOnSentinelOnly ==
    /\ [][ \A w \in Workers :
             RunStep(w) =>
                 /\ (pc'[w] = "exited") <=> (handles[w].impl = ImplBase)
                 /\ \A f \in Functors :
                        handles[w].impl = ImplType(f) =>
                            /\ runs'[f] = runs[f] + 1
                            /\ pc'[w] = "idle" ]_vars
    /\ [](\A w \in Workers :
             pc[w] = "exited" =>
                 /\ handles[w].impl = ImplBase
                 /\ \A f \in dequeued[w] : runs[f] = 1)

\* a worker has left its loop after executing the functor that returns
\* true, while another worker is still in its loop
C18_Witness ==
    \E w \in Workers, u \in Workers :
        /\ pc[w] = "exited"
        /\ \E f \in dequeued[w] : m_functor(f, runs).result /\ runs[f] = 1
        /\ pc[u] # "exited"

\* the objects of the pool that hold functor f
Owners(f) == {o \in PoolObjects : handles[o].impl = ImplType(f)}

\* C19: in every interleaving of the producer and the workers each functor
\* is held by at most one handle, and by none once it is deleted; no two
\* workers hold or have dequeued the same functor; no functor is executed
\* twice; and once every worker has left its loop every functor submitted has
\* been executed exactly once.
C19_EachWorkRunsOnce ==
    /\ \A f \in Functors :
          /\ Cardinality(Owners(f)) <= 1
          /\ f \in deleted => Owners(f) = {}
          /\ f > made => Owners(f) = {} /\ runs[f] = 0
          /\ runs[f] <= 1
          /\ runs[f] = 1 => \E w \in Workers : f \in dequeued[w]
    /\ \A w \in Workers, u \in Workers :
          w # u => dequeued[w] \cap dequeued[u] = {}
    /\ (\A w \in Workers : pc[w] = "exited") =>
          \A f \in 1 .. made : runs[f] = 1

\* every worker has left its loop, each after executing a functor
C19_Witness ==
    /\ \A w \in Workers : pc[w] = "exited" /\ dequeued[w] # {}
    /\ made = MaxFunctors
    /\ \A f \in Functors : runs[f] = 1

====
